---- MODULE Spec2Model ----
(***************************************************************************)
(* A model of hw2-q3/models.py: the sequence-to-sequence network made of   *)
(* Encoder, BahdanauAttention, Decoder and Seq2Seq, with reshape_state.     *)
(*                                                                         *)
(* Tensors are nested sequences (1-based): a tensor of shape (a, b, c) is  *)
(* a sequence of a sequences of b sequences of c elements.  An element is  *)
(* a flat sequence of naturals naming how it was computed (a term of the   *)
(* free algebra of the learned functions), so two elements are equal in    *)
(* the model only if the code computes them from the same inputs by the    *)
(* same operations.  The element <<>> is the number zero.                   *)
(*   <<tok, k>>          feature k of the embedding row of token tok        *)
(*   <<1, k>> \o hist    h of the forward LSTM direction, feature k, after  *)
(*                       reading the tokens hist (2: backward direction;    *)
(*                       3, 4: the cell states c)                           *)
(*   <<5..10, k>>        decoder-side values, whose content no property     *)
(*                       here reads                                         *)
(*   <<11, l, b, k>>     element (l, b, k) of a caller-supplied hidden      *)
(*                       state (12: cell state)                             *)
(*   <<13, k>>           feature k of the encoder_outputs a direct caller   *)
(*                       of BahdanauAttention.forward supplies              *)
(* Attention scores are the integers of ScoreValues, NegInf stands for     *)
(* float("-inf"); exp(s) is 2^s and exp(-inf) is 0; an attention weight is  *)
(* the fraction <<numerator, denominator>>, and <<0, 0>> is NaN (0/0).      *)
(***************************************************************************)
EXTENDS Integers, Sequences, FiniteSets, TLC

\* ----------------------------------------------------------------- bounds
MaxBatch == 2
MaxSrcLen == 2
MaxTgtLen == 2
MaxLayers == 3
MaxParamVal == 1

\* The hidden sizes a model is configured with: the smallest even one, an
\* odd one and a larger even one.
HiddenSizes == {2, 3, 4}
TgtVocabSize == 3
SrcVocab == {0, 1}
\* The finite values a score takes.
ScoreValues == {0, 1}
\* padding_idx: the token a data loader pads a batch with.
PaddingIdx == 0
\* float("-inf")
NegInf == -1

None == <<>>
Zero == <<>>

\* ---------------------------------------------------------------- tensors
Max(S) == CHOOSE x \in S : \A y \in S : y <= x

Range(s) == {s[i] : i \in 1..Len(s)}

\* lengths.max()
MaxOf(lengths) == Max(Range(lengths))

\* The shape of a 3-dimensional tensor with a non-empty leading dimension.
Shape3(x) == <<Len(x), Len(x[1]), IF Len(x[1]) = 0 THEN 0 ELSE Len(x[1][1])>>

\* The shape of a 2-dimensional tensor with a non-empty leading dimension.
Shape2(x) == <<Len(x), Len(x[1])>>

\* A tensor of the given shape whose element (a, b, k) is <<tag, k>>.
Fresh(tag, d1, d2, d3) == [a \in 1..d1 |-> [b \in 1..d2 |-> [k \in 1..d3 |-> <<tag, k>>]]]

\* A caller's state tensor of shape (layers, batch, feat): every element
\* names its own index, so that a reshaping shows where each went.
Tagged(tag, layers, batch, feat) == [l \in 1..layers |-> [b \in 1..batch |-> [k \in 1..feat |-> <<tag, l, b, k>>]]]

\* ---------------------------------------------------------- reshape_state
\* Mutant: the two slices concatenated in the other order.
CatAdjacentSwapped(x) == [l \in 1..(Len(x) - 1) |-> [b \in 1..Len(x[l]) |-> x[l + 1][b] \o x[l][b]]]

\* torch.cat([x[:-1], x[1:]], dim=2)
CatAdjacent(x) == [l \in 1..(Len(x) - 1) |-> [b \in 1..Len(x[l]) |-> x[l][b] \o x[l + 1][b]]]

reshape_state(state) == <<CatAdjacent(state[1]), CatAdjacent(state[2])>>

\* ---------------------------------------------------------------- Encoder
\* Mutant: the size is not halved.
EncoderHiddenSizeFull(hs) == hs

\* The per-direction size of the encoder's LSTM: self.hidden_size.
EncoderHiddenSize(hs) == hs \div 2

\* nn.Embedding: one row of dim features per token.
Embedding(tokens, dim) == [b \in 1..Len(tokens) |-> [i \in 1..Len(tokens[b]) |-> [k \in 1..dim |-> <<tokens[b][i], k>>]]]

\* nn.Dropout with the module in evaluation mode.
Dropout(x) == x

\* pack_padded_sequence raises unless every length is in 1..width.
PackOk(x, lengths) == \A b \in 1..Len(lengths) : lengths[b] >= 1 /\ lengths[b] <= Len(x[b])

\* pack_padded_sequence: of each sequence, the positions below its length.
Pack(x, lengths) == [b \in 1..Len(x) |-> SubSeq(x[b], 1, lengths[b])]

\* The token an embedded vector is the row of.
TokenOf(v) == v[1][1]

\* The tokens of positions from..to of one sequence, in the given order.
History(xs, from, to) == [j \in 1..(to - from + 1) |-> TokenOf(xs[from + j - 1])]

Reverse(s) == [j \in 1..Len(s) |-> s[Len(s) + 1 - j]]

\* One direction's state vector after reading the tokens hist.
LstmState(tag, hd, hist) == [k \in 1..hd |-> <<tag, k>> \o hist]

\* Mutant: the LSTM is not bidirectional, the output is the forward state.
LstmOutputAtForward(xs, i, hd) == LstmState(1, hd, History(xs, 1, i))

\* The bidirectional LSTM's output at position i of one packed sequence:
\* forward state after positions 1..i, then backward state after n..i.
BiLstmOutputAt(xs, i, hd) == LstmState(1, hd, History(xs, 1, i)) \o LstmState(2, hd, Reverse(History(xs, i, Len(xs))))

BiLstmOutputs(packed, hd) == [b \in 1..Len(packed) |-> [i \in 1..Len(packed[b]) |-> BiLstmOutputAt(packed[b], i, hd)]]

\* The final state (2, batch, hd): forward after the last valid position,
\* backward after the first.  tagF, tagB: 1, 2 for h and 3, 4 for c.
BiLstmFinal(packed, hd, tagF, tagB) == << [b \in 1..Len(packed) |-> LstmState(tagF, hd, History(packed[b], 1, Len(packed[b])))], [b \in 1..Len(packed) |-> LstmState(tagB, hd, Reverse(History(packed[b], 1, Len(packed[b]))))] >>

\* Mutant: total_length is the width of src.
UnpackTotalLength(packed, width) == width

\* pad_packed_sequence(packed_outputs, batch_first=True): no total_length is
\* given, so the result is as wide as the longest sequence, zero-filled.
UnpackWidth(packed, width) == Max({Len(packed[b]) : b \in 1..Len(packed)})

Unpack(packed, width, feat) == [b \in 1..Len(packed) |-> [i \in 1..UnpackWidth(packed, width) |-> IF i <= Len(packed[b]) THEN packed[b][i] ELSE [k \in 1..feat |-> Zero]]]

\* Mutant: the LSTM is run on the padded batch itself.
LstmInputPadded(embedded, lengths) == embedded

\* What the LSTM is run on: the packed embedded batch.
LstmInput(embedded, lengths) == Pack(embedded, lengths)

\* Encoder.forward when pack_padded_sequence accepts the lengths:
\* <<outputs, <<hidden, cell>>>>.
EncoderForward(tokens, lengths, hs) ==
    LET hd == EncoderHiddenSize(hs)
        embedded == Dropout(Embedding(tokens, hs))
        packed == LstmInput(embedded, lengths)
        outputs == Dropout(Unpack(BiLstmOutputs(packed, hd), Len(tokens[1]), 2 * hd))
    IN  <<outputs, <<BiLstmFinal(packed, hd, 1, 2), BiLstmFinal(packed, hd, 3, 4)>>>>

\* ------------------------------------------------------ BahdanauAttention
\* Mutant: le in place of lt.
SequenceMaskLe(lengths) == [b \in 1..Len(lengths) |-> [i \in 1..MaxOf(lengths) |-> (i - 1) <= lengths[b]]]

\* sequence_mask: (lengths.numel(), lengths.max()); source position i - 1 of
\* the model's index i is valid when it is less than the length.
SequenceMask(lengths) == [b \in 1..Len(lengths) |-> [i \in 1..MaxOf(lengths) |-> (i - 1) < lengths[b]]]

\* Whether two sizes of one dimension broadcast.
BroadcastOk(w, m) == w = m \/ w = 1 \/ m = 1

BroadcastWidth(w, m) == IF w = 1 THEN m ELSE w

Expand(row, width) == IF Len(row) = width THEN row ELSE [i \in 1..width |-> row[1]]

\* Mutant: masked positions are filled with a finite score.
MaskedFillFinite(sc, m) == [b \in 1..Len(sc) |-> LET w == BroadcastWidth(Len(sc[b]), Len(m[b])) IN [i \in 1..w |-> IF ~Expand(m[b], w)[i] THEN 0 ELSE Expand(sc[b], w)[i]]]

\* scores.masked_fill(~mask, float("-inf")), both operands broadcast.
MaskedFill(sc, m) == [b \in 1..Len(sc) |-> LET w == BroadcastWidth(Len(sc[b]), Len(m[b])) IN [i \in 1..w |-> IF ~Expand(m[b], w)[i] THEN NegInf ELSE Expand(sc[b], w)[i]]]

\* exp of a score.
Exp(s) == IF s = NegInf THEN 0 ELSE 2 ^ s

RECURSIVE Sum(_)
Sum(s) == IF Len(s) = 0 THEN 0 ELSE s[1] + Sum(Tail(s))

\* The denominator of one row's softmax.
SoftmaxDenominator(row) == Sum([i \in 1..Len(row) |-> Exp(row[i])])

\* torch.softmax(scores, dim=-1); a row of -inf alone is 0/0 everywhere.
Softmax(sc) == [b \in 1..Len(sc) |-> [i \in 1..Len(sc[b]) |-> IF SoftmaxDenominator(sc[b]) = 0 THEN <<0, 0>> ELSE <<Exp(sc[b][i]), SoftmaxDenominator(sc[b])>>]]

\* v(tanh(Wh(encoder_outputs) + Ws(query_t))): a finite score per source
\* position; row is the value the learned functions give, the same for
\* every batch element.
Scores(enc, row) == [b \in 1..Len(enc) |-> row]

\* torch.bmm(attention_weights.unsqueeze(1), encoder_outputs).squeeze(1)
ContextVector(weights, enc) == [b \in 1..Len(enc) |-> [k \in 1..Shape3(enc)[3] |-> <<8, k>>]]

\* ---------------------------------------------------------------- Decoder
\* Mutant: any state with two or more leading slices is reshaped.
NeedsReshapeAtLeastTwo(state) == Len(state[1]) >= 2

\* Decoder.forward's test for a bidirectional encoder state.
NeedsReshape(state) == Len(state[1]) = 2

\* Mutant: the state is never reshaped.
DecoderDispatchNever(state) == state

DecoderDispatch(state) == IF NeedsReshape(state) THEN reshape_state(state) ELSE state

\* nn.LSTM(hidden_size, hidden_size) accepts an initial state whose two
\* tensors have shape (1, batch, hidden_size).
LstmStateOk(state, batch, hs) == Shape3(state[1]) = <<1, batch, hs>> /\ Shape3(state[2]) = <<1, batch, hs>>

\* The decoder LSTM's result: output (batch, max_tgt_len, hidden_size) and
\* the new state, two tensors (1, batch, hidden_size).
DecoderLstmOutput(embedded, hs) == Fresh(5, Len(embedded), Len(embedded[1]), hs)

DecoderLstmState(embedded, hs) == <<Fresh(6, 1, Len(embedded), hs), Fresh(7, 1, Len(embedded), hs)>>

\* torch.cat((output, context_vector), dim=-1)
CatFeatures(x, y) == [b \in 1..Len(x) |-> [i \in 1..Len(x[b]) |-> x[b][i] \o y[b][i]]]

\* torch.stack(context_vectors, dim=1)
Stack(cvs) == [b \in 1..Len(cvs[1]) |-> [i \in 1..Len(cvs) |-> cvs[i][b]]]

\* nn.Linear(in, out) on a tensor whose last dimension is in.
Linear(tag, x, out) == Fresh(tag, Len(x), Len(x[1]), out)

\* ----------------------------------------------------------------- Seq2Seq
\* The Parameter objects made by the constructors.
Params == {"decoder.embedding.weight", "generator.weight"}

\* Mutant: generator.weight is a Parameter of its own, equal at first.
CopiedWeight(emb, own) == own

\* self.generator.weight = self.decoder.embedding.weight: the Parameter that
\* generator.weight names afterwards (emb: the embedding's, own: the one
\* nn.Linear made).
TiedWeight(emb, own) == emb

\* --------------------------------------------------------------- the state
VARIABLES hidden_size, attn, heap, generator_weight, embedding_weight, pc, entry, src, src_lengths, tgt, dec_hidden, encoder_outputs, final_enc_state, dec_in, dec_state, output, query, t, scores, mask, attention_weights, context_vectors, logits, error

config == <<hidden_size, attn>>
params == <<heap, generator_weight, embedding_weight>>
args == <<src, src_lengths, tgt, dec_hidden>>
encvars == <<encoder_outputs, final_enc_state>>
decvars == <<dec_in, dec_state, output>>
attnvars == <<query, t, scores, mask, attention_weights, context_vectors>>
vars == <<config, params, pc, entry, args, encvars, decvars, attnvars, logits, error>>

\* A padded batch as a data loader makes it: token 1 below each length,
\* the padding token from there on.
PaddedBatch(lengths, width) == [b \in 1..Len(lengths) |-> [i \in 1..width |-> IF i <= lengths[b] THEN 1 ELSE PaddingIdx]]

\* The batches that differ from tokens only at positions at or beyond each
\* sequence's declared length.
Repadded(tokens, lengths) == {x \in [1..Len(tokens) -> [1..Len(tokens[1]) -> SrcVocab]] : \A b \in 1..Len(tokens) : \A i \in 1..Len(tokens[1]) : i <= lengths[b] => x[b][i] = tokens[b][i]}

\* The dec_hidden arguments of Seq2Seq.forward: None, a state of 1 to
\* MaxLayers leading slices with hidden_size features (a decoder's), or a
\* state of two slices with half as many (a bidirectional encoder's).
DecHiddenArgs(batch, hs) == {None} \cup {<<Tagged(11, l, batch, hs), Tagged(12, l, batch, hs)>> : l \in 1..MaxLayers} \cup {<<Tagged(11, 2, batch, hs \div 2), Tagged(12, 2, batch, hs \div 2)>>}

NoCall == /\ src = None /\ src_lengths = None /\ tgt = None /\ dec_hidden = None
          /\ encoder_outputs = None /\ final_enc_state = None
          /\ dec_in = None /\ dec_state = None /\ output = None
          /\ query = None /\ t = 0 /\ scores = None /\ mask = None
          /\ attention_weights = None /\ context_vectors = None
          /\ logits = None /\ error = ""

\* After Seq2Seq(Encoder(...), Decoder(...)) is constructed.
Init == /\ hidden_size \in HiddenSizes
        /\ attn \in BOOLEAN
        /\ heap = [p \in Params |-> 0]
        /\ embedding_weight = "decoder.embedding.weight"
        /\ generator_weight = TiedWeight("decoder.embedding.weight", "generator.weight")
        /\ pc = "idle"
        /\ entry = "none"
        /\ NoCall

Raise(why) == /\ pc' = "error"
              /\ error' = why

\* ------------------------------------------------------------ entry points
\* Seq2Seq.forward(src, src_lengths, tgt, dec_hidden) is called.
Seq2SeqForward ==
    /\ pc = "idle"
    /\ \E batch \in 1..MaxBatch, width \in 1..MaxSrcLen, tlen \in 1..MaxTgtLen :
         \E lengths \in [1..batch -> 0..width], dh \in DecHiddenArgs(batch, hidden_size) :
            /\ src' = PaddedBatch(lengths, width)
            /\ src_lengths' = lengths
            /\ tgt' = [b \in 1..batch |-> [i \in 1..tlen |-> 1]]
            /\ dec_hidden' = dh
    /\ entry' = "seq2seq"
    /\ pc' = "encoder"
    /\ UNCHANGED <<config, params, encvars, decvars, attnvars, logits, error>>

\* Encoder.forward(src, lengths) is called on its own, on a batch with any
\* tokens at the positions at or beyond each declared length.
EncoderCall ==
    /\ pc = "idle"
    /\ \E batch \in 1..MaxBatch, width \in 1..MaxSrcLen :
         \E lengths \in [1..batch -> 0..width] :
           \E tokens \in Repadded(PaddedBatch(lengths, width), lengths) :
              /\ src' = tokens
              /\ src_lengths' = lengths
    /\ entry' = "encoder"
    /\ pc' = "encoder"
    /\ UNCHANGED <<config, params, tgt, dec_hidden, encvars, decvars, attnvars, logits, error>>

\* BahdanauAttention.forward(query, encoder_outputs, src_lengths) is called
\* on its own: any lengths, any width of encoder_outputs.
AttentionCall ==
    /\ pc = "idle"
    /\ \E batch \in 1..MaxBatch, width \in 1..MaxSrcLen, tlen \in 1..MaxTgtLen :
         \E lengths \in [1..batch -> 0..MaxSrcLen] :
            /\ query' = Fresh(5, batch, tlen, hidden_size)
            /\ encoder_outputs' = Fresh(13, batch, width, hidden_size)
            /\ src_lengths' = lengths
    /\ context_vectors' = <<>>
    /\ t' = 0
    /\ entry' = "attention"
    /\ pc' = "attn"
    /\ UNCHANGED <<config, params, src, tgt, dec_hidden, final_enc_state, decvars, scores, mask, attention_weights, logits, error>>

\* ---------------------------------------------------------------- Encoder
\* Encoder.forward: embed, pack, LSTM, unpack.
EncoderStep ==
    /\ pc = "encoder"
    /\ IF PackOk(src, src_lengths)
         THEN /\ encoder_outputs' = EncoderForward(src, src_lengths, hidden_size)[1]
              /\ final_enc_state' = EncoderForward(src, src_lengths, hidden_size)[2]
              /\ pc' = IF entry = "encoder" THEN "done" ELSE "decoder"
              /\ error' = error
         ELSE /\ Raise("pack_padded_sequence")
              /\ UNCHANGED encvars
    /\ UNCHANGED <<config, params, entry, args, decvars, attnvars, logits>>

\* ---------------------------------------------------------------- Decoder
\* Seq2Seq.forward picks the initial state; Decoder.forward reshapes it when
\* it has two leading slices.
DecoderStart ==
    /\ pc = "decoder"
    /\ dec_in' = IF dec_hidden = None THEN final_enc_state ELSE dec_hidden
    /\ dec_state' = DecoderDispatch(dec_in')
    /\ pc' = "lstm"
    /\ UNCHANGED <<config, params, entry, args, encvars, output, attnvars, logits, error>>

\* embedded = dropout(embedding(tgt)); output, dec_state = lstm(embedded, dec_state)
DecoderLstm ==
    /\ pc = "lstm"
    /\ LET embedded == Dropout(Embedding(tgt, hidden_size))
       IN  IF LstmStateOk(dec_state, Len(tgt), hidden_size)
             THEN /\ output' = DecoderLstmOutput(embedded, hidden_size)
                  /\ dec_state' = DecoderLstmState(embedded, hidden_size)
                  /\ query' = IF attn THEN output' ELSE query
                  /\ context_vectors' = <<>>
                  /\ pc' = IF attn THEN "attn" ELSE "generator"
                  /\ error' = error
             ELSE /\ Raise("lstm: expected hidden size")
                  /\ UNCHANGED <<dec_state, output, query, context_vectors>>
    /\ UNCHANGED <<config, params, entry, args, encvars, dec_in, t, scores, mask, attention_weights, logits>>

\* ------------------------------------------------------ BahdanauAttention
\* One round of the loop over target steps (t is the number of rounds done).
AttentionStep ==
    /\ pc = "attn"
    /\ t < Len(query[1])
    /\ \E row \in [1..Len(encoder_outputs[1]) -> ScoreValues] :
         LET sc == Scores(encoder_outputs, row)
             m == SequenceMask(src_lengths)
             filled == MaskedFill(sc, m)
             weights == Softmax(filled)
         IN  IF Shape3(encoder_outputs)[3] # hidden_size
               THEN /\ Raise("linear: Wh")
                    /\ UNCHANGED <<t, scores, mask, attention_weights, context_vectors>>
               ELSE IF ~BroadcastOk(Len(sc[1]), Len(m[1]))
               THEN /\ Raise("masked_fill: shapes do not broadcast")
                    /\ mask' = m
                    /\ UNCHANGED <<t, scores, attention_weights, context_vectors>>
               ELSE IF Len(weights[1]) # Len(encoder_outputs[1])
               THEN /\ Raise("bmm: shapes")
                    /\ mask' = m
                    /\ scores' = filled
                    /\ attention_weights' = weights
                    /\ UNCHANGED <<t, context_vectors>>
               ELSE /\ mask' = m
                    /\ scores' = filled
                    /\ attention_weights' = weights
                    /\ context_vectors' = Append(context_vectors, ContextVector(weights, encoder_outputs))
                    /\ t' = t + 1
                    /\ UNCHANGED <<pc, error>>
    /\ UNCHANGED <<config, params, entry, args, encvars, decvars, query, logits>>

\* The loop is over: the context vectors are stacked and returned.
AttentionReturn ==
    /\ pc = "attn"
    /\ t = Len(query[1])
    /\ context_vectors' = Stack(context_vectors)
    /\ pc' = IF entry = "attention" THEN "done" ELSE "combine"
    /\ UNCHANGED <<config, params, entry, args, encvars, decvars, query, t, scores, mask, attention_weights, logits, error>>

\* output = tanh(attn_combine(cat(output, context_vector)))
DecoderCombine ==
    /\ pc = "combine"
    /\ IF Shape3(CatFeatures(output, context_vectors))[3] = 2 * hidden_size
         THEN /\ output' = Linear(9, CatFeatures(output, context_vectors), hidden_size)
              /\ pc' = "generator"
              /\ error' = error
         ELSE /\ Raise("linear: attn_combine")
              /\ UNCHANGED output
    /\ UNCHANGED <<config, params, entry, args, encvars, dec_in, dec_state, attnvars, logits>>

\* return self.generator(dropout(output)), dec_hidden
Generator ==
    /\ pc = "generator"
    /\ logits' = Linear(10, Dropout(output), TgtVocabSize)
    /\ pc' = "done"
    /\ UNCHANGED <<config, params, entry, args, encvars, decvars, attnvars, error>>

\* The call is over (returned or raised); its tensors are dropped.
Return ==
    /\ pc \in {"done", "error"}
    /\ pc' = "idle"
    /\ entry' = "none"
    /\ src' = None /\ src_lengths' = None /\ tgt' = None /\ dec_hidden' = None
    /\ encoder_outputs' = None /\ final_enc_state' = None
    /\ dec_in' = None /\ dec_state' = None /\ output' = None
    /\ query' = None /\ t' = 0 /\ scores' = None /\ mask' = None
    /\ attention_weights' = None /\ context_vectors' = None
    /\ logits' = None /\ error' = ""
    /\ UNCHANGED <<config, params>>

\* An in-place update of the Parameter one of the two names refers to (an
\* optimizer step), between forward calls.
ParamUpdate ==
    /\ pc = "idle"
    /\ \E ref \in {generator_weight, embedding_weight}, v \in 0..MaxParamVal :
         heap' = [heap EXCEPT ![ref] = v]
    /\ UNCHANGED <<config, generator_weight, embedding_weight, pc, entry, args, encvars, decvars, attnvars, logits, error>>

Forward == \/ Seq2SeqForward
           \/ EncoderCall
           \/ AttentionCall
           \/ EncoderStep
           \/ DecoderStart
           \/ DecoderLstm
           \/ AttentionStep
           \/ AttentionReturn
           \/ DecoderCombine
           \/ Generator
           \/ Return

Next == Forward

Spec == Init /\ [][Next]_vars

NextTrain == \/ Seq2SeqForward
             \/ EncoderStep
             \/ DecoderStart
             \/ DecoderLstm
             \/ AttentionStep
             \/ AttentionReturn
             \/ DecoderCombine
             \/ Generator
             \/ Return
             \/ ParamUpdate

SpecTrain == Init /\ [][NextTrain]_vars

\* ------------------------------------------------------------- properties
\* A round of the attention loop has completed: mask, scores (after
\* masked_fill) and attention_weights are those of the last round.
StepDone == t >= 1

Batch == 1..Len(src_lengths)

\* The model's indices of the source positions of encoder_outputs; index i
\* is source position i - 1.
Positions == 1..Len(encoder_outputs[1])

\* Index i is at or beyond the declared length of batch element b.
Beyond(b, i) == i - 1 >= src_lengths[b]

\* The width of the mask is the source width of encoder_outputs.
MaskFits == MaxOf(src_lengths) = Len(encoder_outputs[1])

IsNumber(w) == w[2] > 0

IsExactlyZero(w) == w[1] = 0 /\ w[2] > 0

\* The weights of the given indices of one row sum to 1.
SumsToOne(row, idx) == /\ \A i \in idx : row[i][2] = row[1][2]
                       /\ row[1][2] > 0
                       /\ Sum([j \in 1..Len(row) |-> IF j \in idx THEN row[j][1] ELSE 0]) = row[1][2]

IsConcatOfSlices(x, y) ==
    /\ Len(y) = 1
    /\ Len(y[1]) = Len(x[1])
    /\ \A b \in 1..Len(x[1]) :
          /\ Len(y[1][b]) = 2 * Len(x[1][b])
          /\ \A k \in 1..Len(x[1][b]) :
                /\ y[1][b][k] = x[1][b][k]
                /\ y[1][b][Len(x[1][b]) + k] = x[2][b][k]

\* C3: reshape_state of a pair of (2, batch, H) tensors is a pair of
\* (1, batch, 2H) tensors, each holding for every batch element the forward
\* slice's H features followed by the backward slice's.
C3_ReshapeIsConcatenation ==
    (pc = "lstm" /\ Len(dec_in[1]) = 2) =>
        /\ Len(dec_state) = 2
        /\ IsConcatOfSlices(dec_in[1], dec_state[1])
        /\ IsConcatOfSlices(dec_in[2], dec_state[2])

\* The encoder's final state of a batch of 2 with 2 features per direction
\* has been reshaped.
C3_Witness ==
    /\ pc = "lstm" /\ dec_hidden = None /\ hidden_size = 4
    /\ Shape3(dec_in[1]) = <<2, 2, 2>>
    /\ Shape3(dec_state[1]) = <<1, 2, 4>>

\* C4: in every state reached by forward calls and parameter updates made
\* through either name, generator.weight and decoder.embedding.weight read
\* the same value.
C4_WeightsTied == heap[generator_weight] = heap[embedding_weight]

\* A forward call has completed after the weight was updated.
C4_Witness == pc = "done" /\ heap[embedding_weight] = MaxParamVal

LengthsValid == \A b \in Batch : src_lengths[b] >= 1 /\ src_lengths[b] <= Len(src[b])

\* C5: Seq2Seq.forward with dec_hidden=None, lengths in 1..max_src_len and
\* an even hidden_size does not raise, with or without attention, and
\* returns logits of shape (B, T, tgt_vocab_size) and a state pair of
\* tensors of shape (1, B, hidden_size).
C5_ForwardShapes ==
    (entry = "seq2seq" /\ dec_hidden = None /\ hidden_size % 2 = 0 /\ LengthsValid) =>
        /\ pc # "error"
        /\ pc = "done" =>
              /\ Shape3(logits) = <<Len(src), Len(tgt[1]), TgtVocabSize>>
              /\ Len(dec_state) = 2
              /\ Shape3(dec_state[1]) = <<1, Len(src), hidden_size>>
              /\ Shape3(dec_state[2]) = <<1, Len(src), hidden_size>>

\* The call has returned for a batch of 2 of lengths 2 and 1, a target of
\* width 2 and an attention-equipped decoder.
C5_Witness ==
    /\ entry = "seq2seq" /\ pc = "done" /\ dec_hidden = None /\ attn
    /\ hidden_size = 4 /\ src_lengths = <<2, 1>> /\ Len(tgt[1]) = 2
    /\ Shape3(logits) = <<2, 2, TgtVocabSize>>

\* The encoder has returned.
Encoded == final_enc_state # None

\* The feature size of the encoder's outputs and of its reshaped final state
\* is the hidden_size the decoder's LSTM and the attention are built with.
EncoderMatchesDecoder ==
    /\ 2 * EncoderHiddenSize(hidden_size) = hidden_size
    /\ Shape3(encoder_outputs)[3] = hidden_size
    /\ LstmStateOk(reshape_state(final_enc_state), Len(src), hidden_size)

Canonical(tokens, lengths) == [b \in 1..Len(tokens) |-> [i \in 1..Len(tokens[b]) |-> IF i <= lengths[b] THEN tokens[b][i] ELSE PaddingIdx]]

\* C7: the outputs and the final state Encoder.forward returns are those of
\* the batch that has the padding token at every position at or beyond each
\* declared length; so two batches that differ only at those positions get
\* identical outputs and final state.
C7_PaddingDoesNotInfluence ==
    Encoded => <<encoder_outputs, final_enc_state>> = EncoderForward(Canonical(src, src_lengths), src_lengths, hidden_size)

\* Encoder.forward has returned for a batch with tokens other than the
\* padding token beyond a declared length.
C7_Witness ==
    /\ entry = "encoder" /\ pc = "done"
    /\ src_lengths = <<1, 2>>
    /\ src[1] = <<1, 1>>

\* C8: Decoder.forward reshapes the incoming state (the encoder's final
\* state, or dec_hidden when given) if and only if it has exactly 2 leading
\* slices; any other state reaches the LSTM unchanged, and the dispatch does
\* not raise.
C8_ReshapeIffTwoSlices ==
    [][pc = "decoder" =>
        /\ pc' = "lstm"
        /\ error' = ""
        /\ dec_in' = IF dec_hidden = None THEN final_enc_state ELSE dec_hidden
        /\ Len(dec_in'[1]) = 2 => (Len(dec_state'[1]) = 1 /\ IsConcatOfSlices(dec_in'[1], dec_state'[1]))
        /\ Len(dec_in'[1]) # 2 => dec_state' = dec_in']_vars

\* A state of 3 leading slices has reached the LSTM unchanged.
C8_Witness == pc = "lstm" /\ Len(dec_in[1]) = 3 /\ dec_state = dec_in

C10_MaskAsWideAsOutputs ==
    entry = "seq2seq" =>
        /\ error # "masked_fill: shapes do not broadcast"
        /\ error # "bmm: shapes"
        /\ pc = "attn" => Len(SequenceMask(src_lengths)[1]) = Len(encoder_outputs[1])
        /\ (pc = "attn" /\ StepDone) => Shape2(mask) = Shape2(scores) /\ Shape2(scores) = <<Len(src), Len(encoder_outputs[1])>>

\* A round completed in a Seq2Seq.forward call whose longest declared
\* length is less than the width of src.
C10_Witness ==
    /\ entry = "seq2seq" /\ pc = "attn" /\ StepDone
    /\ Len(src[1]) = 2 /\ src_lengths = <<1, 1>>
    /\ Shape2(mask) = <<2, 1>>

====
